---- MODULE Spec2Model ----
(***************************************************************************)
(* Chaum-Pedersen password-less authentication (Solthodox/zkp-auth).       *)
(*                                                                         *)
(* Five specifications share this module:                                  *)
(*   Spec       - the Auth service (src/src/server.rs) driven by provers   *)
(*                (src/src/client.rs): Register, Challenge, Verify, one    *)
(*                request at a time.                                       *)
(*   EngineSpec - the ZKP engine (src/src/lib.rs) run as its unit tests    *)
(*                run it: commit, solve, verify, solve with a fake secret, *)
(*                verify again.                                            *)
(*   DrawSpec   - Spec with generate_random_string free to return a string *)
(*                it has returned before.                                  *)
(*   VerifySpec - one call of ZKP::verify on arbitrary inputs.             *)
(*   LockSpec   - the Auth service serving requests on several worker      *)
(*                threads, a step per Mutex acquisition.                   *)
(* The 1024-bit group of get_1024_bits_config is replaced by the toy group *)
(* of the unit tests (p = 23, q = 11, alpha = 4, beta = 9).                *)
(***************************************************************************)
EXTENDS Integers, Sequences, FiniteSets, TLC

VARIABLES user_info, auth_id_to_user, last, prover, hist, eng, calls, tasks,
          holder

vars ==
    <<user_info, auth_id_to_user, last, prover, hist, eng, calls, tasks,
      holder>>

(***************************************************************************)
(* Group parameters of the unit tests.                                     *)
(***************************************************************************)
alpha == 4
beta == 9
p == 23
q == 11
rng_upper_bound == 23

(***************************************************************************)
(* Bounds of the model.                                                    *)
(***************************************************************************)
\* number of session identifiers the service can hand out
MaxSessions == 2
\* exclusive upper bound of the challenge the service draws; stands for the
\* 2^128 - 1 of get_1024_bits_config, which like this one lies below q
ServerRngBound == 2
\* largest secret exponent the engine runs are drawn from
MaxX == 12
\* largest answer s a caller that holds no session state submits
MaxForged == 4
\* number of requests the service is sent in one run
MaxCalls == 5
\* largest exponent the inputs of a stand-alone verify are built from
MaxExp == 3
\* number of requests the worker threads accept in one run
MaxRequests == 4

Users == {"alice", "bob"}
Secrets == {6, 7}
Ks == {3, 7}
Tokens == {"t1"}
AuthIds == 1 .. MaxSessions
SInputs == 0 .. MaxForged
\* answers sent to the workers: solve(3, 0, x) and solve(7, 1, 6)
Answers == {3, 1}

\* worker threads of the tokio runtime
Tasks == {"worker1", "worker2"}
NoTask == ""

NoSecret == 0 - 1
NoAuthId == 0
NoToken == ""
NoUser == ""

(***************************************************************************)
(* BigUint helpers.                                                        *)
(***************************************************************************)
RECURSIVE modpow(_, _, _)
modpow(b, e, m) ==
    IF m = 1 THEN 0
    ELSE IF e = 0 THEN 1
    ELSE IF e % 2 = 1 THEN (b * modpow(b, e - 1, m)) % m
    ELSE LET h == modpow(b, e \div 2, m) IN (h * h) % m

RECURSIVE to_bytes_be(_)
to_bytes_be(n) ==
    IF n < 256 THEN <<n>> ELSE Append(to_bytes_be(n \div 256), n % 256)

RECURSIVE from_bytes_be(_)
from_bytes_be(b) ==
    IF Len(b) = 0 THEN 0
    ELSE 256 * from_bytes_be(SubSeq(b, 1, Len(b) - 1)) + b[Len(b)]

(***************************************************************************)
(* The ZKP engine.                                                         *)
(***************************************************************************)
ZKP(a, b, pp, qq, rng) ==
    [alpha |-> a, beta |-> b, p |-> pp, q |-> qq, rng_upper_bound |-> rng]

\* the instance of the unit test test_toy_example_with_random_generator
toy_zkp == ZKP(alpha, beta, p, q, rng_upper_bound)

\* the instance the server and the client build, on the toy group
zkp_instance == ZKP(alpha, beta, p, q, ServerRngBound)

\* solve without the wrap-around of the branch k < c*x
solve_no_wrap(zkp, k, c, x) ==
    LET cx == c * x IN
    IF k >= cx THEN modpow(k - cx, 1, zkp.q)
    ELSE modpow(cx - k, 1, zkp.q)

solve(zkp, k, c, x) ==
    LET cx == c * x IN
    IF k >= cx THEN modpow(k - cx, 1, zkp.q)
    ELSE zkp.q - modpow(cx - k, 1, zkp.q)

\* verify with alpha where the second equation needs beta
verify_alpha_twice(zkp, y1, y2, r1, r2, s, c) ==
    LET r1_verified ==
            r1 = modpow(modpow(zkp.alpha, s, zkp.p) * modpow(y1, c, zkp.p), 1, zkp.p)
        r2_verified ==
            r2 = modpow(modpow(zkp.alpha, s, zkp.p) * modpow(y2, c, zkp.p), 1, zkp.p)
    IN r1_verified /\ r2_verified

\* verify without the factors y1^c and y2^c
verify_no_c(zkp, y1, y2, r1, r2, s, c) ==
    LET r1_verified == r1 = modpow(modpow(zkp.alpha, s, zkp.p), 1, zkp.p)
        r2_verified == r2 = modpow(modpow(zkp.beta, s, zkp.p), 1, zkp.p)
    IN r1_verified /\ r2_verified

\* verify that is content with one of the two equations
verify_either(zkp, y1, y2, r1, r2, s, c) ==
    LET r1_verified ==
            r1 = modpow(modpow(zkp.alpha, s, zkp.p) * modpow(y1, c, zkp.p), 1, zkp.p)
        r2_verified ==
            r2 = modpow(modpow(zkp.beta, s, zkp.p) * modpow(y2, c, zkp.p), 1, zkp.p)
    IN r1_verified \/ r2_verified

verify(zkp, y1, y2, r1, r2, s, c) ==
    LET r1_verified ==
            r1 = modpow(modpow(zkp.alpha, s, zkp.p) * modpow(y1, c, zkp.p), 1, zkp.p)
        r2_verified ==
            r2 = modpow(modpow(zkp.beta, s, zkp.p) * modpow(y2, c, zkp.p), 1, zkp.p)
    IN r1_verified /\ r2_verified

\* the values gen_biguint_below can return
\* generate_random with the upper bound included
generate_random_inclusive(zkp) == 0 .. zkp.rng_upper_bound

generate_random(zkp) == 0 .. (zkp.rng_upper_bound - 1)

\* a 48 character random alphanumeric string: a session identifier the
\* service has not handed out yet.  Identifiers are interchangeable, so the
\* draw is represented by the smallest unused one; none is left when the
\* bound is reached.
generate_random_string(used) ==
    {a \in AuthIds \ used : \A b \in AuthIds \ used : a <= b}

(***************************************************************************)
(* The Auth service: state and responses.                                  *)
(***************************************************************************)
\* UserInfo::default() with the user name set
UserInfo(user_name) ==
    [user_name |-> user_name, y1 |-> 0, y2 |-> 0, r1 |-> 0, r2 |-> 0,
     c |-> 0, s |-> 0, session_id |-> NoToken]

\* the request a handler served and the response it returned
Response(op, user_name, auth_id, s, code, message, c, session_id) ==
    [op |-> op, user_name |-> user_name, auth_id |-> auth_id, s |-> s,
     code |-> code, message |-> message, c |-> c, session_id |-> session_id]

NoResponse == Response("none", NoUser, NoAuthId, 0, "none", "", <<>>, NoToken)

\* the sessions auth_id_to_user maps to a user
SessionsOf(user_name) ==
    {a \in DOMAIN auth_id_to_user : auth_id_to_user[a] = user_name}

(***************************************************************************)
(* The three handlers of impl Auth for AuthImpl.  No handler awaits, and   *)
(* each holds every lock it takes until it returns, so a handler that      *)
(* returns is one atomic step.                                             *)
(***************************************************************************)
\* register with y1 and y2 stored in each other's place
register_swapped(user_name, y1, y2) ==
    LET user_info_cache ==
            [UserInfo(user_name) EXCEPT !.y1 = from_bytes_be(y2),
                                        !.y2 = from_bytes_be(y1)]
    IN /\ user_info' = (user_name :> user_info_cache) @@ user_info
       /\ UNCHANGED auth_id_to_user
       /\ last' = Response("register", user_name, NoAuthId, 0, "Ok", "",
                           <<>>, NoToken)

\* register that keeps the record of an identity that already has one
register_keep(user_name, y1, y2) ==
    LET user_info_cache ==
            [UserInfo(user_name) EXCEPT !.y1 = from_bytes_be(y1),
                                        !.y2 = from_bytes_be(y2)]
    IN /\ user_info' = user_info @@ (user_name :> user_info_cache)
       /\ UNCHANGED auth_id_to_user
       /\ last' = Response("register", user_name, NoAuthId, 0, "Ok", "",
                           <<>>, NoToken)

\* register that refuses an identity that is registered already
register_once(user_name, y1, y2) ==
    LET user_info_cache ==
            [UserInfo(user_name) EXCEPT !.y1 = from_bytes_be(y1),
                                        !.y2 = from_bytes_be(y2)]
    IN IF user_name \in DOMAIN user_info
       THEN /\ UNCHANGED <<user_info, auth_id_to_user>>
            /\ last' = Response("register", user_name, NoAuthId, 0,
                                "AlreadyExists", "user exists", <<>>, NoToken)
       ELSE /\ user_info' = (user_name :> user_info_cache) @@ user_info
            /\ UNCHANGED auth_id_to_user
            /\ last' = Response("register", user_name, NoAuthId, 0, "Ok", "",
                                <<>>, NoToken)

\* register that starts the credential store over
register_alone(user_name, y1, y2) ==
    LET user_info_cache ==
            [UserInfo(user_name) EXCEPT !.y1 = from_bytes_be(y1),
                                        !.y2 = from_bytes_be(y2)]
    IN /\ user_info' = (user_name :> user_info_cache)
       /\ UNCHANGED auth_id_to_user
       /\ last' = Response("register", user_name, NoAuthId, 0, "Ok", "",
                           <<>>, NoToken)

\* register that keeps the r1, r2 and c of an identity that has a record
register_keep_challenge(user_name, y1, y2) ==
    LET old == IF user_name \in DOMAIN user_info
               THEN user_info[user_name] ELSE UserInfo(user_name)
        user_info_cache ==
            [UserInfo(user_name) EXCEPT !.y1 = from_bytes_be(y1),
                                        !.y2 = from_bytes_be(y2),
                                        !.r1 = old.r1, !.r2 = old.r2,
                                        !.c = old.c]
    IN /\ user_info' = (user_name :> user_info_cache) @@ user_info
       /\ UNCHANGED auth_id_to_user
       /\ last' = Response("register", user_name, NoAuthId, 0, "Ok", "",
                           <<>>, NoToken)

register(user_name, y1, y2) ==
    LET user_info_cache ==
            [UserInfo(user_name) EXCEPT !.y1 = from_bytes_be(y1),
                                        !.y2 = from_bytes_be(y2)]
    IN /\ user_info' = (user_name :> user_info_cache) @@ user_info
       /\ UNCHANGED auth_id_to_user
       /\ last' = Response("register", user_name, NoAuthId, 0, "Ok", "",
                           <<>>, NoToken)

\* the else branch leaving a default record behind for the unknown identity
user_not_found_default(user_name) ==
    /\ user_info' = (user_name :> UserInfo(user_name)) @@ user_info
    /\ UNCHANGED auth_id_to_user
    /\ last' = Response("challenge", user_name, NoAuthId, 0, "NotFound",
                        "user not found", <<>>, NoToken)

\* the else branch opening a session for the unknown identity
user_not_found_session(user_name) ==
    /\ \E auth_id \in generate_random_string(DOMAIN auth_id_to_user) :
          auth_id_to_user' = (auth_id :> user_name) @@ auth_id_to_user
    /\ UNCHANGED user_info
    /\ last' = Response("challenge", user_name, NoAuthId, 0, "NotFound",
                        "user not found", <<>>, NoToken)

\* the else branch of create_authentication_challenge
user_not_found(user_name) ==
    /\ UNCHANGED <<user_info, auth_id_to_user>>
    /\ last' = Response("challenge", user_name, NoAuthId, 0, "NotFound",
                        "user not found", <<>>, NoToken)

\* the handler writing the challenge c into the record of every identity
challenge_drawing_shared_c(user_name, r1, r2, auth_ids) ==
    IF user_name \in DOMAIN user_info
    THEN \E c \in generate_random(zkp_instance) :
         \E auth_id \in auth_ids :
            /\ user_info' = [u \in DOMAIN user_info |->
                                IF u = user_name
                                THEN [user_info[u] EXCEPT
                                        !.r1 = from_bytes_be(r1),
                                        !.r2 = from_bytes_be(r2),
                                        !.c = c]
                                ELSE [user_info[u] EXCEPT !.c = c]]
            /\ auth_id_to_user' = (auth_id :> user_name) @@ auth_id_to_user
            /\ last' = Response("challenge", user_name, auth_id, 0, "Ok", "",
                                to_bytes_be(c), NoToken)
    ELSE user_not_found(user_name)

\* create_authentication_challenge with its auth_id drawn from auth_ids
challenge_drawing(user_name, r1, r2, auth_ids) ==
    IF user_name \in DOMAIN user_info
    THEN \E c \in generate_random(zkp_instance) :
         \E auth_id \in auth_ids :
            /\ user_info' = [user_info EXCEPT
                                ![user_name].r1 = from_bytes_be(r1),
                                ![user_name].r2 = from_bytes_be(r2),
                                ![user_name].c = c]
            /\ auth_id_to_user' = (auth_id :> user_name) @@ auth_id_to_user
            /\ last' = Response("challenge", user_name, auth_id, 0, "Ok", "",
                                to_bytes_be(c), NoToken)
    ELSE user_not_found(user_name)

\* the handler with generate_random_string returning a string it has not
\* returned before
create_authentication_challenge(user_name, r1, r2) ==
    challenge_drawing(user_name, r1, r2,
                      generate_random_string(DOMAIN auth_id_to_user))

\* the else branch leaving an entry behind for the unknown identifier
auth_id_not_found_insert(auth_id, s) ==
    /\ auth_id_to_user' = (auth_id :> NoUser) @@ auth_id_to_user
    /\ UNCHANGED user_info
    /\ last' = Response("verify", NoUser, auth_id, s, "NotFound",
                        "auth id not found", <<>>, NoToken)

\* the else branch answering with a token
auth_id_not_found_token(auth_id, s) ==
    /\ UNCHANGED <<user_info, auth_id_to_user>>
    /\ \E session_id \in Tokens :
          last' = Response("verify", NoUser, auth_id, s, "Ok", "", <<>>,
                           session_id)

\* the else branch of verify_authentication
auth_id_not_found(auth_id, s) ==
    /\ UNCHANGED <<user_info, auth_id_to_user>>
    /\ last' = Response("verify", NoUser, auth_id, s, "NotFound",
                        "auth id not found", <<>>, NoToken)

\* verify_authentication that removes the session it has verified
verify_authentication_retire(auth_id, s_bytes) ==
    LET s == from_bytes_be(s_bytes) IN
    IF auth_id \in DOMAIN auth_id_to_user
    THEN LET user_name == auth_id_to_user[auth_id]
             info == user_info[user_name]
         IN IF verify(zkp_instance, info.y1, info.y2, info.r1, info.r2, s,
                      info.c)
            THEN \E session_id \in Tokens :
                   /\ user_info' = [user_info EXCEPT
                                      ![user_name].session_id = session_id]
                   /\ auth_id_to_user' =
                          [a \in DOMAIN auth_id_to_user \ {auth_id} |->
                              auth_id_to_user[a]]
                   /\ last' = Response("verify", NoUser, auth_id, s, "Ok",
                                       "", <<>>, session_id)
            ELSE /\ UNCHANGED <<user_info, auth_id_to_user>>
                 /\ last' = Response("verify", NoUser, auth_id, s,
                                     "NotFound", "wrong answer", <<>>,
                                     NoToken)
    ELSE auth_id_not_found(auth_id, s)

\* verify_authentication that locks the identity after a wrong answer
verify_authentication_lockout(auth_id, s_bytes) ==
    LET s == from_bytes_be(s_bytes) IN
    IF auth_id \in DOMAIN auth_id_to_user
    THEN LET user_name == auth_id_to_user[auth_id]
             info == user_info[user_name]
         IN IF verify(zkp_instance, info.y1, info.y2, info.r1, info.r2, s,
                      info.c)
            THEN \E session_id \in Tokens :
                   /\ user_info' = [user_info EXCEPT
                                      ![user_name].session_id = session_id]
                   /\ UNCHANGED auth_id_to_user
                   /\ last' = Response("verify", NoUser, auth_id, s, "Ok",
                                       "", <<>>, session_id)
            ELSE /\ user_info' = [user_info EXCEPT ![user_name].y1 = 0,
                                                   ![user_name].y2 = 0]
                 /\ UNCHANGED auth_id_to_user
                 /\ last' = Response("verify", NoUser, auth_id, s,
                                     "NotFound", "wrong answer", <<>>,
                                     NoToken)
    ELSE auth_id_not_found(auth_id, s)

verify_authentication(auth_id, s_bytes) ==
    LET s == from_bytes_be(s_bytes) IN
    IF auth_id \in DOMAIN auth_id_to_user
    THEN LET user_name == auth_id_to_user[auth_id] IN
         IF user_name \notin DOMAIN user_info
         THEN \* get_mut(..).unwrap() on a missing entry
              /\ UNCHANGED <<user_info, auth_id_to_user>>
              /\ last' = Response("verify", NoUser, auth_id, s, "Panic", "",
                                  <<>>, NoToken)
         ELSE LET info == user_info[user_name] IN
              IF verify(zkp_instance, info.y1, info.y2, info.r1, info.r2, s,
                        info.c)
              THEN \E session_id \in Tokens :
                     /\ user_info' = [user_info EXCEPT
                                        ![user_name].session_id = session_id]
                     /\ UNCHANGED auth_id_to_user
                     /\ last' = Response("verify", NoUser, auth_id, s, "Ok",
                                         "", <<>>, session_id)
              ELSE /\ UNCHANGED <<user_info, auth_id_to_user>>
                   /\ last' = Response("verify", NoUser, auth_id, s,
                                       "NotFound", "wrong answer", <<>>,
                                       NoToken)
    ELSE auth_id_not_found(auth_id, s)

(***************************************************************************)
(* Provers (client.rs).  prover[a] is what the prover that opened session  *)
(* a keeps: the identity, its k and the challenge c it was sent.  hist is  *)
(* history: the secret each identity registered last, the different secret *)
(* that one replaced (prev),                                               *)
(* the sessions whose identity has not been registered again since         *)
(* (same_cred), those whose identity has neither been registered nor       *)
(* challenged again since (fresh), and the sessions on which a Verify was  *)
(* refused for a wrong answer (failed).                                    *)
(***************************************************************************)
NoHist ==
    [secret |-> [u \in Users |-> NoSecret], prev |-> [u \in Users |-> NoSecret],
     same_cred |-> {}, fresh |-> {}, failed |-> {}]

\* one more request is sent, while the run may still send one
Call ==
    /\ calls < MaxCalls
    /\ calls' = calls + 1

ClientRegister(user_name, x) ==
    /\ Call
    /\ register(user_name,
                to_bytes_be(modpow(zkp_instance.alpha, x, zkp_instance.p)),
                to_bytes_be(modpow(zkp_instance.beta, x, zkp_instance.p)))
    /\ hist' = [secret |-> [hist.secret EXCEPT ![user_name] = x],
                prev |-> [hist.prev EXCEPT ![user_name] =
                            IF hist.secret[user_name] = x THEN @
                            ELSE hist.secret[user_name]],
                same_cred |-> hist.same_cred \ SessionsOf(user_name),
                fresh |-> hist.fresh \ SessionsOf(user_name),
                failed |-> hist.failed]
    /\ UNCHANGED <<prover, eng, tasks, holder>>

ClientChallenge(user_name, k) ==
    /\ Call
    /\ create_authentication_challenge(user_name,
                to_bytes_be(modpow(zkp_instance.alpha, k, zkp_instance.p)),
                to_bytes_be(modpow(zkp_instance.beta, k, zkp_instance.p)))
    /\ IF last'.code = "Ok"
       THEN /\ prover' = (last'.auth_id :>
                            [user_name |-> user_name, k |-> k,
                             c |-> from_bytes_be(last'.c)]) @@ prover
            /\ hist' = [hist EXCEPT
                          !.same_cred = @ \cup {last'.auth_id},
                          !.fresh = (@ \ SessionsOf(user_name))
                                        \cup {last'.auth_id}]
       ELSE UNCHANGED <<prover, hist>>
    /\ UNCHANGED <<eng, tasks, holder>>

\* the history after a Verify of auth_id: a wrong answer is recorded
Refused(auth_id) ==
    [hist EXCEPT !.failed = IF last'.message = "wrong answer"
                            THEN @ \cup {auth_id} ELSE @]

\* the prover that opened session auth_id answers with the secret x it holds
ClientVerify(auth_id, x) ==
    /\ Call
    /\ auth_id \in DOMAIN prover
    /\ LET s == solve(zkp_instance, prover[auth_id].k, prover[auth_id].c, x)
       IN verify_authentication(auth_id, to_bytes_be(s))
    /\ hist' = Refused(auth_id)
    /\ UNCHANGED <<prover, eng, tasks, holder>>

\* a caller that holds no session state submits an answer of its own
ForgedVerify(auth_id, s) ==
    /\ Call
    /\ verify_authentication(auth_id, to_bytes_be(s))
    /\ hist' = Refused(auth_id)
    /\ UNCHANGED <<prover, eng, tasks, holder>>

\* Challenge with generate_random_string free to return any string, one
\* it has returned before included
DrawChallenge(user_name, k) ==
    /\ Call
    /\ challenge_drawing(user_name,
                to_bytes_be(modpow(zkp_instance.alpha, k, zkp_instance.p)),
                to_bytes_be(modpow(zkp_instance.beta, k, zkp_instance.p)),
                AuthIds)
    /\ IF last'.code = "Ok"
       THEN /\ prover' = (last'.auth_id :>
                            [user_name |-> user_name, k |-> k,
                             c |-> from_bytes_be(last'.c)]) @@ prover
            /\ hist' = [hist EXCEPT
                          !.same_cred = @ \cup {last'.auth_id},
                          !.fresh = (@ \ SessionsOf(user_name))
                                        \cup {last'.auth_id}]
       ELSE UNCHANGED <<prover, hist>>
    /\ UNCHANGED <<eng, tasks, holder>>

(***************************************************************************)
(* The engine run of the unit tests (lib.rs, mod test).                    *)
(***************************************************************************)
EngineRun(pc, x, k, c, x_fake) ==
    [pc |-> pc, x |-> x, k |-> k, c |-> c, x_fake |-> x_fake,
     y1 |-> 0, y2 |-> 0, r1 |-> 0, r2 |-> 0,
     s |-> 0, ok |-> FALSE, s_fake |-> 0, ok_fake |-> FALSE]

EngineOff == EngineRun("off", 0, 0, 0, 0)

EngCommit ==
    /\ eng.pc = "start"
    /\ eng' = [eng EXCEPT !.pc = "committed",
                          !.y1 = modpow(toy_zkp.alpha, eng.x, toy_zkp.p),
                          !.y2 = modpow(toy_zkp.beta, eng.x, toy_zkp.p),
                          !.r1 = modpow(toy_zkp.alpha, eng.k, toy_zkp.p),
                          !.r2 = modpow(toy_zkp.beta, eng.k, toy_zkp.p)]
    /\ UNCHANGED <<user_info, auth_id_to_user, last, prover, hist, calls,
                   tasks, holder>>

EngSolve ==
    /\ eng.pc = "committed"
    /\ eng' = [eng EXCEPT !.pc = "solved",
                          !.s = solve(toy_zkp, eng.k, eng.c, eng.x)]
    /\ UNCHANGED <<user_info, auth_id_to_user, last, prover, hist, calls,
                   tasks, holder>>

EngVerify ==
    /\ eng.pc = "solved"
    /\ eng' = [eng EXCEPT !.pc = "verified",
                          !.ok = verify(toy_zkp, eng.y1, eng.y2, eng.r1,
                                        eng.r2, eng.s, eng.c)]
    /\ UNCHANGED <<user_info, auth_id_to_user, last, prover, hist, calls,
                   tasks, holder>>

\* the fake answer solved with the real secret
EngSolveFake_real_x ==
    /\ eng.pc = "verified"
    /\ eng' = [eng EXCEPT !.pc = "solved_fake",
                          !.s_fake = solve(toy_zkp, eng.k, eng.c, eng.x)]
    /\ UNCHANGED <<user_info, auth_id_to_user, last, prover, hist, calls,
                   tasks, holder>>

EngSolveFake ==
    /\ eng.pc = "verified"
    /\ eng' = [eng EXCEPT !.pc = "solved_fake",
                          !.s_fake = solve(toy_zkp, eng.k, eng.c, eng.x_fake)]
    /\ UNCHANGED <<user_info, auth_id_to_user, last, prover, hist, calls,
                   tasks, holder>>

EngVerifyFake ==
    /\ eng.pc = "solved_fake"
    /\ eng' = [eng EXCEPT !.pc = "done",
                          !.ok_fake = verify(toy_zkp, eng.y1, eng.y2, eng.r1,
                                             eng.r2, eng.s_fake, eng.c)]
    /\ UNCHANGED <<user_info, auth_id_to_user, last, prover, hist, calls,
                   tasks, holder>>

(***************************************************************************)
(* Worker threads: the request a worker serves and where it is in the      *)
(* handler (tasks), and the worker that holds each Mutex (holder).         *)
(***************************************************************************)
\* y1, y2 are the two byte strings of the request: the y1, y2 of a
\* RegisterRequest, the r1, r2 of an AuthenticationChallengeRequest
Request(op, user_name, y1, y2, auth_id, s) ==
    [op |-> op, user_name |-> user_name, y1 |-> y1, y2 |-> y2,
     auth_id |-> auth_id, s |-> s]

NoRequest == Request("", NoUser, <<>>, <<>>, NoAuthId, <<>>)

Task(pc, request) == [pc |-> pc, request |-> request]

NoTasks == [t \in Tasks |-> Task("idle", NoRequest)]

\* history of the runs on several workers, for the record of each identity:
\* the worker whose Challenge has written r1, r2 and not yet c, Mixed once
\* a c was written by another Challenge than the one that wrote r1 and r2,
\* NoTask when r1, r2 and c are those of one Register or one Challenge
Mixed == "mixed"
LockHist == [half |-> [u \in Users |-> NoTask]]

NoHolder == [user_info |-> NoTask, auth_id_to_user |-> NoTask]

(***************************************************************************)
(* Specifications.                                                         *)
(***************************************************************************)
Init ==
    /\ user_info = <<>>
    /\ auth_id_to_user = <<>>
    /\ last = NoResponse
    /\ prover = <<>>
    /\ hist = NoHist
    /\ eng = EngineOff
    /\ calls = 0
    /\ tasks = NoTasks
    /\ holder = NoHolder

Next ==
    \/ \E user_name \in Users, x \in Secrets : ClientRegister(user_name, x)
    \/ \E user_name \in Users, k \in Ks : ClientChallenge(user_name, k)
    \/ \E auth_id \in AuthIds, x \in Secrets : ClientVerify(auth_id, x)
    \/ \E auth_id \in AuthIds, s \in SInputs : ForgedVerify(auth_id, s)

Spec == Init /\ [][Next]_vars

\* the service with no assumption on the strings generate_random_string
\* returns
DrawNext ==
    \/ \E user_name \in Users, x \in Secrets : ClientRegister(user_name, x)
    \/ \E user_name \in Users, k \in Ks : DrawChallenge(user_name, k)
    \/ \E auth_id \in AuthIds, s \in SInputs : ForgedVerify(auth_id, s)

DrawSpec == Init /\ [][DrawNext]_vars

EngineInit ==
    /\ user_info = <<>>
    /\ auth_id_to_user = <<>>
    /\ last = NoResponse
    /\ prover = <<>>
    /\ hist = NoHist
    /\ calls = 0
    /\ tasks = NoTasks
    /\ holder = NoHolder
    /\ \E x \in 0 .. MaxX, x_fake \in 0 .. MaxX :
       \E k \in generate_random(toy_zkp), c \in generate_random(toy_zkp) :
          eng = EngineRun("start", x, k, c, x_fake)

EngineNext ==
    \/ EngCommit
    \/ EngSolve
    \/ EngVerify
    \/ EngSolveFake
    \/ EngVerifyFake

EngineSpec == EngineInit /\ [][EngineNext]_vars

(***************************************************************************)
(* One call of ZKP::verify on inputs that need not come from one secret:   *)
(* y1 and y2 are built from the exponents x1 and x2, r1 and r2 from k1 and *)
(* k2.                                                                     *)
(***************************************************************************)
VerifyRun(pc, y1, y2, r1, r2, s, c) ==
    [pc |-> pc, y1 |-> y1, y2 |-> y2, r1 |-> r1, r2 |-> r2, s |-> s, c |-> c,
     ok |-> FALSE]

VerifyCall ==
    /\ eng.pc = "inputs"
    /\ eng' = [eng EXCEPT !.pc = "checked",
                          !.ok = verify(toy_zkp, eng.y1, eng.y2, eng.r1,
                                        eng.r2, eng.s, eng.c)]
    /\ UNCHANGED <<user_info, auth_id_to_user, last, prover, hist, calls,
                   tasks, holder>>

VerifyInit ==
    /\ user_info = <<>>
    /\ auth_id_to_user = <<>>
    /\ last = NoResponse
    /\ prover = <<>>
    /\ hist = NoHist
    /\ calls = 0
    /\ tasks = NoTasks
    /\ holder = NoHolder
    /\ \E x1 \in 0 .. MaxExp, x2 \in 0 .. MaxExp :
       \E k1 \in 0 .. MaxExp, k2 \in 0 .. MaxExp :
       \E s \in 0 .. toy_zkp.q, c \in 0 .. MaxExp :
          eng = VerifyRun("inputs",
                          modpow(toy_zkp.alpha, x1, toy_zkp.p),
                          modpow(toy_zkp.beta, x2, toy_zkp.p),
                          modpow(toy_zkp.alpha, k1, toy_zkp.p),
                          modpow(toy_zkp.beta, k2, toy_zkp.p), s, c)

VerifyNext == VerifyCall

VerifySpec == VerifyInit /\ [][VerifyNext]_vars

(***************************************************************************)
(* The service on several worker threads.  A handler has no await, so a    *)
(* worker runs it from the first line to the return; the only points where *)
(* it can be held up are the two Mutex::lock calls, and each is a step of  *)
(* its own.  A guard bound by `let` lives to the end of its block: the     *)
(* user_info guard of create_authentication_challenge and the              *)
(* auth_id_to_user guard of verify_authentication are still held when the  *)
(* second lock is taken, and both are dropped at the return.  The writes   *)
(* of create_authentication_challenge to the record are steps of their     *)
(* own, made while the user_info guard is held.                            *)
(***************************************************************************)
\* the handler returns: its guards are dropped
Return(t) ==
    /\ tasks' = [tasks EXCEPT ![t] = Task("idle", NoRequest)]
    /\ holder' = [m \in DOMAIN holder |->
                     IF holder[m] = t THEN NoTask ELSE holder[m]]

\* a worker takes a request and runs its handler up to the first lock
Accept(t, request) ==
    /\ tasks[t].pc = "idle"
    /\ calls < MaxRequests
    /\ calls' = calls + 1
    /\ tasks' = [tasks EXCEPT ![t] = Task(request.op, request)]
    /\ UNCHANGED <<user_info, auth_id_to_user, last, holder, prover, hist,
                   eng>>

AcceptRegister(t, user_name, x) ==
    Accept(t, Request("register", user_name,
                to_bytes_be(modpow(zkp_instance.alpha, x, zkp_instance.p)),
                to_bytes_be(modpow(zkp_instance.beta, x, zkp_instance.p)),
                NoAuthId, <<>>))

\* the Challenge requests in progress
Challenging == {t \in Tasks : tasks[t].request.op = "challenge"}

\* accepted while a session identifier is left for it
AcceptChallenge(t, user_name, k) ==
    /\ Cardinality(DOMAIN auth_id_to_user) + Cardinality(Challenging)
           < MaxSessions
    /\ Accept(t, Request("challenge", user_name,
                to_bytes_be(modpow(zkp_instance.alpha, k, zkp_instance.p)),
                to_bytes_be(modpow(zkp_instance.beta, k, zkp_instance.p)),
                NoAuthId, <<>>))

AcceptVerify(t, auth_id, s) ==
    Accept(t, Request("verify", NoUser, <<>>, <<>>, auth_id, to_bytes_be(s)))

\* register that keeps the y2 of a record that exists
RegisterLocked_merge(t) ==
    LET u == tasks[t].request.user_name
        y2 == IF u \in DOMAIN user_info
              THEN to_bytes_be(user_info[u].y2) ELSE tasks[t].request.y2
    IN /\ tasks[t].pc = "register"
       /\ holder.user_info = NoTask
       /\ register(u, tasks[t].request.y1, y2)
       /\ Return(t)
       /\ hist' = [hist EXCEPT !.half[u] = NoTask]
       /\ UNCHANGED <<prover, eng, calls>>

\* register: self.user_info.lock(), insert, return
RegisterLocked(t) ==
    LET u == tasks[t].request.user_name IN
    /\ tasks[t].pc = "register"
    /\ holder.user_info = NoTask
    /\ register(u, tasks[t].request.y1, tasks[t].request.y2)
    /\ Return(t)
    /\ hist' = [hist EXCEPT !.half[u] = NoTask]
    /\ UNCHANGED <<prover, eng, calls>>

\* create_authentication_challenge: self.user_info.lock(), the lookup and
\* the writes of r1 and r2; an unknown user returns from here
ChallengeLockUsers(t) ==
    LET u == tasks[t].request.user_name IN
    /\ tasks[t].pc = "challenge"
    /\ holder.user_info = NoTask
    /\ IF u \in DOMAIN user_info
       THEN /\ holder' = [holder EXCEPT !.user_info = t]
            /\ user_info' = [user_info EXCEPT
                                ![u].r1 = from_bytes_be(tasks[t].request.y1),
                                ![u].r2 = from_bytes_be(tasks[t].request.y2)]
            /\ hist' = [hist EXCEPT !.half[u] = t]
            /\ tasks' = [tasks EXCEPT ![t].pc = "challenge_r"]
            /\ UNCHANGED <<auth_id_to_user, last>>
       ELSE /\ user_not_found(u)
            /\ Return(t)
            /\ UNCHANGED hist
    /\ UNCHANGED <<prover, eng, calls>>

\* create_authentication_challenge: c is drawn and written, with the
\* user_info guard held
ChallengeDraw(t) ==
    LET u == tasks[t].request.user_name IN
    /\ tasks[t].pc = "challenge_r"
    /\ \E c \in generate_random(zkp_instance) :
          user_info' = [user_info EXCEPT ![u].c = c]
    /\ hist' = [hist EXCEPT !.half[u] = IF @ = t THEN NoTask ELSE Mixed]
    /\ tasks' = [tasks EXCEPT ![t].pc = "challenge_found"]
    /\ UNCHANGED <<auth_id_to_user, last, holder, prover, eng, calls>>

\* create_authentication_challenge: self.auth_id_to_user.lock(), with the
\* user_info guard held
ChallengeLockSessions(t) ==
    /\ tasks[t].pc = "challenge_found"
    /\ holder.auth_id_to_user = NoTask
    /\ holder' = [holder EXCEPT !.auth_id_to_user = t]
    /\ tasks' = [tasks EXCEPT ![t].pc = "challenge_insert"]
    /\ UNCHANGED <<user_info, auth_id_to_user, last, prover, hist, eng,
                   calls>>

\* create_authentication_challenge: the insert and the return
ChallengeReturn(t) ==
    LET u == tasks[t].request.user_name IN
    /\ tasks[t].pc = "challenge_insert"
    /\ \E auth_id \in generate_random_string(DOMAIN auth_id_to_user) :
          /\ auth_id_to_user' = (auth_id :> u) @@ auth_id_to_user
          /\ last' = Response("challenge", u, auth_id, 0, "Ok", "",
                              to_bytes_be(user_info[u].c), NoToken)
    /\ Return(t)
    /\ UNCHANGED <<user_info, prover, hist, eng, calls>>

\* verify_authentication: self.auth_id_to_user.lock() and the lookup; an
\* unknown auth_id returns from here
VerifyLockSessions(t) ==
    /\ tasks[t].pc = "verify"
    /\ holder.auth_id_to_user = NoTask
    /\ IF tasks[t].request.auth_id \in DOMAIN auth_id_to_user
       THEN /\ holder' = [holder EXCEPT !.auth_id_to_user = t]
            /\ tasks' = [tasks EXCEPT ![t].pc = "verify_found"]
            /\ UNCHANGED <<user_info, auth_id_to_user, last>>
       ELSE /\ verify_authentication(tasks[t].request.auth_id,
                                     tasks[t].request.s)
            /\ Return(t)
    /\ UNCHANGED <<prover, hist, eng, calls>>

\* verify_authentication going on to the record without the user_info lock
VerifyLockUsers_unlocked(t) ==
    /\ tasks[t].pc = "verify_found"
    /\ tasks' = [tasks EXCEPT ![t].pc = "verify_check"]
    /\ UNCHANGED <<user_info, auth_id_to_user, last, holder, prover, hist,
                   eng, calls>>

\* verify_authentication: self.user_info.lock(), with the auth_id_to_user
\* guard held
VerifyLockUsers(t) ==
    /\ tasks[t].pc = "verify_found"
    /\ holder.user_info = NoTask
    /\ holder' = [holder EXCEPT !.user_info = t]
    /\ tasks' = [tasks EXCEPT ![t].pc = "verify_check"]
    /\ UNCHANGED <<user_info, auth_id_to_user, last, prover, hist, eng,
                   calls>>

\* verify_authentication: the record is read and checked, and the return
VerifyReturn(t) ==
    /\ tasks[t].pc = "verify_check"
    /\ verify_authentication(tasks[t].request.auth_id, tasks[t].request.s)
    /\ Return(t)
    /\ UNCHANGED <<prover, hist, eng, calls>>

LockInit ==
    /\ user_info = <<>>
    /\ auth_id_to_user = <<>>
    /\ last = NoResponse
    /\ prover = <<>>
    /\ hist = LockHist
    /\ eng = EngineOff
    /\ calls = 0
    /\ tasks = NoTasks
    /\ holder = NoHolder

LockNext ==
    \/ \E t \in Tasks, user_name \in Users, x \in Secrets :
          AcceptRegister(t, user_name, x)
    \/ \E t \in Tasks, user_name \in Users, k \in Ks :
          AcceptChallenge(t, user_name, k)
    \/ \E t \in Tasks, auth_id \in AuthIds, s \in Answers :
          AcceptVerify(t, auth_id, s)
    \/ \E t \in Tasks : RegisterLocked(t)
    \/ \E t \in Tasks : ChallengeLockUsers(t)
    \/ \E t \in Tasks : ChallengeDraw(t)
    \/ \E t \in Tasks : ChallengeLockSessions(t)
    \/ \E t \in Tasks : ChallengeReturn(t)
    \/ \E t \in Tasks : VerifyLockSessions(t)
    \/ \E t \in Tasks : VerifyLockUsers(t)
    \/ \E t \in Tasks : VerifyReturn(t)

LockSpec == LockInit /\ [][LockNext]_vars

(***************************************************************************)
(* Properties of the engine, checked under EngineSpec.                     *)
(***************************************************************************)
EngSolved == eng.pc \in {"solved", "verified", "solved_fake", "done"}
EngVerified == eng.pc \in {"verified", "solved_fake", "done"}
EngDone == eng.pc = "done"

\* C7: completeness.  With y1, y2 the commitment of x and r1, r2 the
\* commitment of k, verify accepts solve(k, c, x), for every x, k and c and
\* in both branches of solve.
C7_Completeness == EngVerified => eng.ok

\* a run that took the branch k < c*x of solve and was verified
C7_Witness == EngVerified /\ eng.k < eng.c * eng.x /\ eng.ok

\* C8: solve returns a value in [0, q), in both branches, at the boundary
\* k = c*x and when c*x - k is a positive multiple of q.
C8_SolveInRange == EngSolved => (0 <= eng.s /\ eng.s < q)

\* C16: solve(k, c, x) equals the non-negative residue (k - c*x) mod q for
\* every k, c, x >= 0, in the branch k >= c*x and in the branch k < c*x.
C16_SolveIsResidue == EngSolved => eng.s = (eng.k - eng.c * eng.x) % q

C10_ToyExample ==
    (EngDone /\ eng.x = 6 /\ eng.k = 7 /\ eng.c = 4 /\ eng.x_fake = 7) =>
        /\ eng.y1 = 2
        /\ eng.y2 = 3
        /\ eng.r1 = 8
        /\ eng.r2 = 4
        /\ eng.s = 5
        /\ eng.ok
        /\ ~eng.ok_fake

\* the finished run of the concrete scenario
C10_Witness ==
    /\ EngDone
    /\ eng.x = 6
    /\ eng.k = 7
    /\ eng.c = 4
    /\ eng.x_fake = 7
    /\ eng.s = 5

(***************************************************************************)
(* Properties of the Auth service, checked under Spec.                     *)
(***************************************************************************)
\* the answer of the prover of session a that holds the secret its identity
\* registered last
HonestAnswer(a) ==
    solve(zkp_instance, prover[a].k, prover[a].c,
          hist.secret[prover[a].user_name])

\* the answer of the prover of session a computed with the secret x
AnswerWith(a, x) == solve(zkp_instance, prover[a].k, prover[a].c, x)

\* the last request served was Verify(a, s)
Verified(a, s) == last.op = "verify" /\ last.auth_id = a /\ last.s = s

\* the response carries a session token
TokenReturned == last.code = "Ok" /\ last.session_id # NoToken

\* C1: honest run.  Register(identity, commit(x)), Challenge(identity,
\* commit(k)) returning (auth_id, c), then Verify(auth_id, solve(k, c, x))
\* with no other Register or Challenge for the identity in between returns a
\* session token, for every k and c.
C1_HonestRun ==
    \A a \in DOMAIN prover :
        (a \in hist.fresh /\ Verified(a, HonestAnswer(a))) => TokenReturned

\* an honest run answered a challenge c > 0 through the branch k < c*x
C1_Witness ==
    \E a \in DOMAIN prover :
        /\ a \in hist.fresh
        /\ Verified(a, HonestAnswer(a))
        /\ prover[a].k < prover[a].c * hist.secret[prover[a].user_name]

\* C2: two Challenge calls for one registered identity, issued before either
\* is verified, make two independent sessions, each verifiable with its own
\* answer.  Stated for the first answer: while the identity has two sessions
\* opened since its registration and none of them has been verified, Verify
\* of either one with its own solve(k, c, x) returns a token.
C2_IndependentSessions ==
    \A a \in DOMAIN prover, b \in DOMAIN prover :
        ( /\ a # b
          /\ prover[a].user_name = prover[b].user_name
          /\ {a, b} \subseteq hist.same_cred
          /\ Verified(a, HonestAnswer(a))
          /\ \/ user_info[prover[a].user_name].session_id = NoToken
             \/ last.code = "Ok" )
        => TokenReturned

\* the identity of session a registered x' after a secret x that is not
\* congruent to x' modulo q
Reregistered(a) ==
    LET u == prover[a].user_name IN
    /\ hist.prev[u] # NoSecret
    /\ hist.prev[u] % q # hist.secret[u] % q

\* every credential is the commitment of the secret registered last
StoredCommitment ==
    \A u \in DOMAIN user_info :
        /\ user_info[u].y1 = modpow(alpha, hist.secret[u], p)
        /\ user_info[u].y2 = modpow(beta, hist.secret[u], p)

C4_UnknownUser ==
    [][\A u \in Users :
        ( /\ calls' = calls + 1
          /\ last'.op = "challenge"
          /\ last'.user_name = u
          /\ u \notin DOMAIN user_info )
        => /\ last'.code = "NotFound"
           /\ last'.message = "user not found"
           /\ last'.auth_id = NoAuthId
           /\ user_info' = user_info
           /\ auth_id_to_user' = auth_id_to_user]_vars

\* a Challenge for an unregistered identity was served while another
\* identity was registered
C4_Witness ==
    /\ last.op = "challenge"
    /\ last.user_name \notin DOMAIN user_info
    /\ DOMAIN user_info # {}

\* C5: Verify with a session identifier no Challenge returned fails with
\* NotFound (unknown session) for every s, returns no token and leaves both
\* stores unchanged.
C5_UnknownSession ==
    [][\A a \in AuthIds :
        ( /\ calls' = calls + 1
          /\ last'.op = "verify"
          /\ last'.auth_id = a
          /\ a \notin DOMAIN auth_id_to_user )
        => /\ last'.code = "NotFound"
           /\ last'.message = "auth id not found"
           /\ last'.session_id = NoToken
           /\ user_info' = user_info
           /\ auth_id_to_user' = auth_id_to_user]_vars

\* a Verify for an identifier never handed out was served while a session
\* was open
C5_Witness ==
    /\ last.op = "verify"
    /\ last.auth_id \notin DOMAIN auth_id_to_user
    /\ DOMAIN auth_id_to_user # {}

\* the two verification equations, on the record of an identity
EquationsHold(info, s) ==
    /\ info.r1 = (modpow(alpha, s, p) * modpow(info.y1, info.c, p)) % p
    /\ info.r2 = (modpow(beta, s, p) * modpow(info.y2, info.c, p)) % p

\* C6: for a known session, Verify returns a token if and only if the
\* verification equations hold for the stored y1, y2, r1, r2, c and the
\* submitted s; otherwise it returns an error and no token.
C6_TokenIffEquations ==
    (last.op = "verify" /\ last.auth_id \in DOMAIN auth_id_to_user) =>
        LET info == user_info[auth_id_to_user[last.auth_id]] IN
        /\ TokenReturned <=> EquationsHold(info, last.s)
        /\ ~EquationsHold(info, last.s) =>
               (last.code # "Ok" /\ last.session_id = NoToken)

\* a Verify of a known session was refused on a challenge c > 0
C6_Witness ==
    /\ last.op = "verify"
    /\ last.auth_id \in DOMAIN auth_id_to_user
    /\ last.code = "NotFound"
    /\ user_info[auth_id_to_user[last.auth_id]].c > 0

\* C12: Register(identity, y1, y2) succeeds from every reachable state
\* (identity unregistered, registered, with a pending challenge or already
\* verified), returns an empty acknowledgement, and afterwards the
\* credential stored for identity has exactly the y1, y2 of the request.
\* Every Register that was served, whatever the state it was served in,
\* returned Ok with no payload and left the commitment it was sent in the
\* record of the identity.
C12_RegisterSucceeds ==
    last.op = "register" =>
        /\ last.code = "Ok"
        /\ last.message = ""
        /\ last.auth_id = NoAuthId
        /\ last.c = <<>>
        /\ last.session_id = NoToken
        /\ last.user_name \in DOMAIN user_info
        /\ user_info[last.user_name].y1 =
               (alpha ^ hist.secret[last.user_name]) % p
        /\ user_info[last.user_name].y2 =
               (beta ^ hist.secret[last.user_name]) % p

\* an identity that has sessions open was registered again, with another
\* secret
C12_Witness ==
    /\ last.op = "register"
    /\ SessionsOf(last.user_name) # {}
    /\ hist.prev[last.user_name] # NoSecret

\* C13: for every session identifier returned by Challenge at most one
\* Verify call on it returns a token.  Stated for the next call: a Verify
\* that repeats, with the same session identifier and s, the Verify that has
\* just returned a token does not return a second token.
C13_TokenOnce ==
    [][( /\ last.op = "verify"
         /\ TokenReturned
         /\ calls' = calls + 1
         /\ last'.op = "verify"
         /\ last'.auth_id = last.auth_id
         /\ last'.s = last.s )
       => last'.code # "Ok"]_vars

\* C14: when the session exists and the equations do not hold, Verify fails
\* with an error whose code differs from the not-found code returned for an
\* unknown user or an unknown session.
C14_DistinctFailure ==
    ( /\ last.op = "verify"
      /\ last.auth_id \in DOMAIN auth_id_to_user
      /\ ~TokenReturned )
    => last.code # "NotFound"

\* C15: credentials are never deleted.  Every identity that has a
\* credential has one after every call, and a Challenge served for it does
\* not fail with the unknown-user error.
C15_CredentialsKept ==
    [][\A u \in DOMAIN user_info :
        /\ u \in DOMAIN user_info'
        /\ ( /\ calls' = calls + 1
             /\ last'.op = "challenge"
             /\ last'.user_name = u )
           => last'.code = "Ok"]_vars

\* an identity that was registered, challenged and verified was challenged
\* again, while another identity is registered too
C15_Witness ==
    /\ last.op = "challenge"
    /\ last.code = "Ok"
    /\ user_info[last.user_name].session_id # NoToken
    /\ Cardinality(DOMAIN user_info) > 1

OwnEquationsHold(a, s) ==
    LET info == user_info[prover[a].user_name]
        r1 == modpow(alpha, prover[a].k, p)
        r2 == modpow(beta, prover[a].k, p)
        c == prover[a].c
    IN /\ r1 = (modpow(alpha, s, p) * modpow(info.y1, c, p)) % p
       /\ r2 = (modpow(beta, s, p) * modpow(info.y2, c, p)) % p

\* C20: Verify(session_id, s) evaluates the equations with the r1, r2 and c
\* of the Challenge call that returned session_id and with the current y1,
\* y2 of the identity, whatever other Challenge or Register calls for the
\* identity were served in between: it returns a token if and only if these
\* equations hold.
C20_OwnChallenge ==
    \A a \in DOMAIN prover :
        (last.op = "verify" /\ last.auth_id = a) =>
            (TokenReturned <=> OwnEquationsHold(a, last.s))

\* a Verify on an earlier session of the identity of session a was refused
\* for a wrong answer (session identifiers are handed out in increasing
\* order)
FailedBefore(a) ==
    \E b \in hist.failed :
        b < a /\ prover[b].user_name = prover[a].user_name

\* C21: no lockout.  After failed Verify calls for an identity, a
\* subsequent honest Challenge followed by Verify with the correct s for
\* the identity still succeeds and returns a token.
C21_NoLockout ==
    \A a \in DOMAIN prover :
        ( /\ FailedBefore(a)
          /\ a \in hist.fresh
          /\ Verified(a, HonestAnswer(a)) )
        => TokenReturned

\* the honest answer to a challenge c > 0 was accepted after a refused
\* Verify on an earlier session of the identity
C21_Witness ==
    \E a \in DOMAIN prover :
        /\ FailedBefore(a)
        /\ a \in hist.fresh
        /\ Verified(a, HonestAnswer(a))
        /\ prover[a].c > 0
        /\ TokenReturned

\* C22: after a failed Verify on a session the caller must restart from
\* Challenge: no later Verify on the same session identifier returns a token
\* unless a new Challenge has been issued in between.  Stated for the next
\* call: the Verify that follows a failed Verify on the same known session
\* returns no token.
C22_RestartFromChallenge ==
    [][\A a \in DOMAIN auth_id_to_user :
        ( /\ last.op = "verify"
          /\ last.auth_id = a
          /\ ~TokenReturned
          /\ calls' = calls + 1
          /\ last'.op = "verify"
          /\ last'.auth_id = a )
        => last'.code # "Ok"]_vars

\* C23: protocol ordering.  Verify returns a token only for a session
\* identifier that a successful Challenge returned earlier for an identity
\* registered before that; no identity that was never registered or never
\* challenged holds a token.
C23_ProtocolOrder ==
    /\ (last.op = "verify" /\ TokenReturned) =>
           /\ last.auth_id \in DOMAIN prover
           /\ auth_id_to_user[last.auth_id] = prover[last.auth_id].user_name
           /\ hist.secret[prover[last.auth_id].user_name] # NoSecret
    /\ \A u \in Users :
           (u \in DOMAIN user_info /\ user_info[u].session_id # NoToken) =>
               /\ hist.secret[u] # NoSecret
               /\ \E a \in DOMAIN prover : prover[a].user_name = u

\* a token was returned while another identity is registered and was never
\* challenged
C23_Witness ==
    /\ last.op = "verify"
    /\ TokenReturned
    /\ \E u \in DOMAIN user_info :
          SessionsOf(u) = {} /\ user_info[u].session_id = NoToken

\* C26: generate_random returns a value v with 0 <= v < rng_upper_bound, so
\* every challenge c that Challenge issues and stores is strictly below the
\* rng_upper_bound of the service's configuration.
C26_ChallengeBelowBound ==
    /\ \A v \in generate_random(zkp_instance) :
           0 <= v /\ v < zkp_instance.rng_upper_bound
    /\ (last.op = "challenge" /\ last.code = "Ok") =>
           /\ 0 <= from_bytes_be(last.c)
           /\ from_bytes_be(last.c) < ServerRngBound
    /\ \A u \in DOMAIN user_info :
           0 <= user_info[u].c /\ user_info[u].c < ServerRngBound

\* a Challenge returned the largest value below the bound
C26_Witness ==
    /\ last.op = "challenge"
    /\ last.code = "Ok"
    /\ from_bytes_be(last.c) = ServerRngBound - 1
    /\ user_info[last.user_name].c = ServerRngBound - 1

\* no Challenge of the identity of session a has completed since the
\* identity was registered last
NoChallengeSinceRegister(a) ==
    SessionsOf(prover[a].user_name) \cap hist.same_cred = {}

\* C28: re-registration invalidates pending challenges.  Register replaces
\* the whole record of the identity, so r1, r2 and c are zero, and every
\* Verify on a session of the identity issued before the re-registration
\* fails, for every s, until a new Challenge of the identity completes.
C28_ReRegisterInvalidates ==
    \A a \in DOMAIN prover :
        ( /\ last.op = "verify"
          /\ last.auth_id = a
          /\ NoChallengeSinceRegister(a) )
        => /\ ~TokenReturned
           /\ last.code = "NotFound"
           /\ user_info[prover[a].user_name].r1 = 0
           /\ user_info[prover[a].user_name].r2 = 0
           /\ user_info[prover[a].user_name].c = 0

\* the honest answer to a session issued before its identity registered
\* the same secret again was refused
C28_Witness ==
    \E a \in DOMAIN prover :
        /\ Verified(a, HonestAnswer(a))
        /\ NoChallengeSinceRegister(a)
        /\ hist.prev[prover[a].user_name] = NoSecret
        /\ ~TokenReturned

Challenge_state(info) == [info EXCEPT !.session_id = NoToken]

\* C30: Verify is read-only except for the token.  It never changes the
\* challenge store and never changes the y1, y2, r1, r2 or c of any
\* identity; a failed Verify changes nothing at all, and a successful Verify
\* changes only the session token stored for the identity of the session.
C30_VerifyWritesTokenOnly ==
    [][(calls' = calls + 1 /\ last'.op = "verify") =>
        /\ auth_id_to_user' = auth_id_to_user
        /\ DOMAIN user_info' = DOMAIN user_info
        /\ \A u \in DOMAIN user_info :
               Challenge_state(user_info'[u]) = Challenge_state(user_info[u])
        /\ last'.code # "Ok" => user_info' = user_info
        /\ last'.code = "Ok" =>
               /\ last'.auth_id \in DOMAIN auth_id_to_user
               /\ \A u \in DOMAIN user_info :
                      u # auth_id_to_user[last'.auth_id] =>
                          user_info'[u] = user_info[u]
               /\ user_info'[auth_id_to_user[last'.auth_id]].session_id =
                      last'.session_id]_vars

\* a Verify returned a token while two identities are registered and two
\* sessions are open
C30_Witness ==
    /\ last.op = "verify"
    /\ TokenReturned
    /\ Cardinality(DOMAIN user_info) > 1
    /\ Cardinality(DOMAIN auth_id_to_user) > 1


(***************************************************************************)
(* Properties of the session identifiers, checked under DrawSpec.          *)
(***************************************************************************)
\* C24: every successful Challenge returns a session identifier that is not
\* already a key of the challenge store, so a new session never overwrites
\* or re-targets the identity mapping of an existing session, and the
\* number of sessions grows by exactly one per successful Challenge.
C24_FreshSessionId ==
    [][( /\ calls' = calls + 1
         /\ last'.op = "challenge"
         /\ last'.code = "Ok" )
       => /\ last'.auth_id \notin DOMAIN auth_id_to_user
          /\ \A a \in DOMAIN auth_id_to_user :
                 auth_id_to_user'[a] = auth_id_to_user[a]
          /\ Cardinality(DOMAIN auth_id_to_user') =
                 Cardinality(DOMAIN auth_id_to_user) + 1]_vars

(***************************************************************************)
(* Properties of one call of verify, checked under VerifySpec.             *)
(***************************************************************************)
FirstEquation ==
    eng.r1 = (modpow(alpha, eng.s, p) * modpow(eng.y1, eng.c, p)) % p
SecondEquation ==
    eng.r2 = (modpow(beta, eng.s, p) * modpow(eng.y2, eng.c, p)) % p

\* C11: verify returns true if and only if both r1 = alpha^s * y1^c mod p
\* and r2 = beta^s * y2^c mod p; an input that satisfies only one of the
\* two equations is rejected.
C11_BothEquations ==
    eng.pc = "checked" =>
        /\ eng.ok <=> (FirstEquation /\ SecondEquation)
        /\ (FirstEquation # SecondEquation) => ~eng.ok

\* an input with y1 and y2 from different exponents that satisfies the
\* first equation only was rejected
C11_Witness ==
    /\ eng.pc = "checked"
    /\ FirstEquation
    /\ ~SecondEquation
    /\ ~eng.ok


(***************************************************************************)
(* Properties of the service on several workers, checked under LockSpec.   *)
(***************************************************************************)
\* worker t holds the lock of store m
Holds(t, m) == holder[m] = t

\* worker t is at the lock call of store m and another worker holds it
WaitsFor(t, m) ==
    /\ tasks[t].pc \in (IF m = "user_info"
                         THEN {"register", "challenge", "verify_found"}
                         ELSE {"verify", "challenge_found"})
    /\ holder[m] \notin {NoTask, t}

\* C17: no deadlock.  A Challenge (which takes the credential-store lock and
\* then the challenge-store lock) running concurrently with a Verify on a
\* known session (which takes the challenge-store lock and then the
\* credential-store lock) never reaches a state in which each waits for the
\* lock the other holds.
C17_NoDeadlock ==
    ~ \E t \in Tasks, u \in Tasks :
        /\ t # u
        /\ Holds(t, "user_info") /\ WaitsFor(t, "auth_id_to_user")
        /\ Holds(u, "auth_id_to_user") /\ WaitsFor(u, "user_info")

\* C18: each store's lock is acquired and released independently: no
\* request holds the credential-store lock and the challenge-store lock at
\* the same time.
C18_OneLockAtATime ==
    \A t \in Tasks : ~ (Holds(t, "user_info") /\ Holds(t, "auth_id_to_user"))


\* the record of u holds the y1, y2 of one request
OnePair(info) ==
    \E x \in Secrets :
        /\ info.y1 = modpow(alpha, x, p)
        /\ info.y2 = modpow(beta, x, p)

\* C25: last-write-wins without merge under concurrency.  After any
\* interleaving of concurrent Register calls for one identity the stored
\* (y1, y2) is the pair of one of the requests, the one that took the lock
\* last: the Register that returns leaves its own pair in the record, and
\* no record holds the y1 of one request with the y2 of another.
C25_LastWriteWins ==
    [][/\ \A u \in DOMAIN user_info' : OnePair(user_info'[u])
       /\ \A t \in Tasks :
              (tasks[t].pc = "register" /\ tasks'[t].pc = "idle") =>
                  LET u == tasks[t].request.user_name IN
                  /\ u \in DOMAIN user_info'
                  /\ user_info'[u].y1 = from_bytes_be(tasks[t].request.y1)
                  /\ user_info'[u].y2 = from_bytes_be(tasks[t].request.y2)
      ]_vars

\* a Register has stored its pair while a Register of the same identity
\* with another pair is in progress
C25_Witness ==
    /\ last.op = "register"
    /\ \E t \in Tasks :
          /\ tasks[t].pc = "register"
          /\ tasks[t].request.user_name = last.user_name
          /\ from_bytes_be(tasks[t].request.y1) #
                 user_info[last.user_name].y1
          /\ from_bytes_be(tasks[t].request.y2) #
                 user_info[last.user_name].y2

\* C27: atomic challenge state.  Under any interleaving of concurrent
\* Challenge, Register and Verify calls the (r1, r2, c) that a Verify reads
\* for an identity is all zero, as Register set it, or was written entirely
\* by one Challenge call: a Verify that is about to read the record never
\* finds r1, r2 of one Challenge with the c of another call.
C27_AtomicChallengeState ==
    \A t \in Tasks :
        tasks[t].pc = "verify_check" =>
            LET u == auth_id_to_user[tasks[t].request.auth_id] IN
            /\ hist.half[u] = NoTask
            /\ user_info[u].r1 = 0 =>
                   (user_info[u].r2 = 0 /\ user_info[u].c = 0)

\* a Verify is about to read the record a Challenge has written, while a
\* second Challenge of the identity waits for the user_info lock
C27_Witness ==
    \E t \in Tasks, w \in Tasks :
        /\ tasks[t].pc = "verify_check"
        /\ user_info[auth_id_to_user[tasks[t].request.auth_id]].r1 # 0
        /\ tasks[w].pc = "challenge"
        /\ tasks[w].request.user_name =
               auth_id_to_user[tasks[t].request.auth_id]

====
